---- MODULE Spec2Model ----
(***************************************************************************)
(* A model of shootout.py: the Kismet data source "shootout".  The script  *)
(* registers the source names given on the command line, logs in, resolves *)
(* every name to a UUID, tunes the sources to one channel and then polls   *)
(* the data source list once per second: the first iteration (Syncing)     *)
(* records packet count offsets, every later one (Collecting) updates the  *)
(* counts dictionary and prints one line per entry of that dictionary.     *)
(***************************************************************************)
EXTENDS Integers, Sequences, FiniteSets, TLC

\* ------------------------------------------------------------------ bounds
\* Longest command line (number of positional source arguments).
MaxSources == 2
\* Longest data source list the remote service returns.
MaxSnapshot == 2
\* Largest packet count a data source reports.
MaxPackets == 2

\* Names that can be given on the command line.
SourceNames == {"wlan0", "wlan1"}
\* Names the remote service can report: the above and one nobody asked for.
RemoteNames == SourceNames \cup {"wlan2"}
\* The identifier the remote service has given each of its sources (never 0: a
\* Kismet UUID is a non-empty string); a source keeps it for the whole run.
UuidOf(n) == CASE n = "wlan0" -> 11 [] n = "wlan1" -> 22 [] OTHER -> 33
\* Values of the -c option.
Channels == {1, 6}
\* Opaque acknowledgements of a channel command.
Acks == {"ok"}

VARIABLES
    pc,                 \* next statement: "parse", "login", "resolve", "tune", "loop", "exit", "raised"
    bound,              \* the names among state, counts, datasources that are bound so far
    channel,            \* args.channel
    sources_by_name,    \* the registry: a sequence of SourceInfo in dict (insertion) order
    session,            \* what kr.check_session() returned: "unchecked", "valid", "invalid"
    datasources,        \* the list last returned by kr.datasources()
    state,              \* State: "Syncing" or "Collecting" ("" while unbound)
    counts,             \* the counts dict: a sequence of [ifc, count] in insertion order
    set_channel_calls,  \* the config_datasource_set_channel calls made, in order
    stdout,             \* the message lines printed by the last step
    report,             \* the per-source lines printed by the last loop iteration
    branch,             \* the branch the last loop iteration took ("" before the loop)
    exit_status,        \* sys.exit argument (-1 while running)
    exception           \* the uncaught exception ("" if none)

vars == <<pc, bound, channel, sources_by_name, session, datasources, state, counts,
          set_channel_calls, stdout, report, branch, exit_status, exception>>

\* ------------------------------------------------------------- sequences
RECURSIVE SeqsUpTo(_, _)
SeqsUpTo(S, n) ==
    IF n = 0 THEN {<<>>}
    ELSE LET shorter == SeqsUpTo(S, n - 1)
         IN  shorter \cup {Append(s, x) : s \in {t \in shorter : Len(t) = n - 1}, x \in S}

\* ------------------------------------------------------------ SourceInfo
\* class SourceInfo with its class-level defaults and the name set by the caller.
SourceInfo(source_name) ==
    [name |-> source_name, uuid |-> 0, chan |-> 0, count |-> 0, offset |-> 0]

\* The keys of an ordered dict of SourceInfo.
Keys(reg) == {reg[i].name : i \in 1..Len(reg)}

\* Position of key n in the registry (n is a key).
IndexOf(reg, n) == CHOOSE i \in 1..Len(reg) : reg[i].name = n

\* sources_by_name[source_name] = si: a new key is appended, an existing key
\* keeps its position and gets the new value.
DictSet(reg, si) ==
    IF si.name \in Keys(reg)
    THEN [reg EXCEPT ![IndexOf(reg, si.name)] = si]
    ELSE Append(reg, si)

\* for source_name in args.sources: ... sources_by_name[source_name] = si
RECURSIVE BuildRegistry(_, _)
BuildRegistry(reg, names) ==
    IF names = <<>> THEN reg
    ELSE BuildRegistry(DictSet(reg, SourceInfo(Head(names))), Tail(names))

\* ------------------------------------------------------------ remote data
\* One element of kr.datasources().
DataSource(n, u, p) == [name |-> n, uuid |-> u, num_packets |-> p]

\* What the remote service can return: any list of its sources, each entry with
\* the source's name and uuid and any packet count (a counter can restart).  The
\* resolution pass does not read num_packets, which is enumerated with one value.
ResolveEntries == {DataSource(n, UuidOf(n), 0) : n \in RemoteNames}
PollEntries == {DataSource(n, UuidOf(n), p) : n \in RemoteNames, p \in 0..MaxPackets}
ResolveSnapshots == SeqsUpTo(ResolveEntries, MaxSnapshot)
PollSnapshots == SeqsUpTo(PollEntries, MaxSnapshot)

\* --------------------------------------------------------- startup steps
\* ParseArgs treating the shootout of fewer than two sources as an error.
ParseArgs_WarningExits ==
    /\ pc = "parse"
    /\ \E args_sources \in SeqsUpTo(SourceNames, MaxSources) \ {<<>>}, args_channel \in Channels :
          LET reg == BuildRegistry(<<>>, args_sources)
          IN  /\ sources_by_name' = reg
              /\ channel' = args_channel
              /\ IF Len(reg) < 2
                 THEN /\ stdout' = <<"A shootout with only one data source is uninteresting, but whatever...">>
                      /\ pc' = "exit"
                      /\ exit_status' = 1
                 ELSE /\ stdout' = <<>>
                      /\ pc' = "login"
                      /\ exit_status' = exit_status
    /\ UNCHANGED <<bound, session, datasources, state, counts, set_channel_calls,
                   report, branch, exception>>

\* Lines 41-58: parse the command line (argparse: one or more sources, -c required),
\* build the registry and warn about a shootout of fewer than two sources.
ParseArgs ==
    /\ pc = "parse"
    /\ \E args_sources \in SeqsUpTo(SourceNames, MaxSources) \ {<<>>}, args_channel \in Channels :
          LET reg == BuildRegistry(<<>>, args_sources)
          IN  /\ sources_by_name' = reg
              /\ channel' = args_channel
              /\ stdout' = IF Len(reg) < 2
                           THEN <<"A shootout with only one data source is uninteresting, but whatever...">>
                           ELSE <<>>
    /\ pc' = "login"
    /\ UNCHANGED <<bound, session, datasources, state, counts, set_channel_calls,
                   report, branch, exit_status, exception>>

\* AfterCheckSession printing the message without leaving.
AfterCheckSession_NoExit(check_session) ==
    [pc |-> "resolve", exit_status |-> -1,
     stdout |-> IF check_session THEN <<>> ELSE <<"Invalid login">>]

\* Lines 65-67: where the program goes after kr.check_session().
AfterCheckSession(check_session) ==
    IF check_session
    THEN [pc |-> "resolve", exit_status |-> -1, stdout |-> <<>>]
    ELSE [pc |-> "exit", exit_status |-> 1, stdout |-> <<"Invalid login">>]

\* Lines 61-67: connect, log in, and leave with status 1 when the session is invalid.
Login ==
    /\ pc = "login"
    /\ \E check_session \in BOOLEAN :
          LET r == AfterCheckSession(check_session)
          IN  /\ session' = IF check_session THEN "valid" ELSE "invalid"
              /\ stdout' = r.stdout
              /\ pc' = r.pc
              /\ exit_status' = r.exit_status
    /\ UNCHANGED <<bound, channel, sources_by_name, datasources, state, counts,
                   set_channel_calls, report, branch, exception>>

\* Lines 72-74: the inner loop of the resolution pass; the last entry with the
\* source's name decides its uuid.
RECURSIVE ScanUuid(_, _)
ScanUuid(source, dslist) ==
    IF dslist = <<>> THEN source
    ELSE ScanUuid(IF Head(dslist).name = source.name
                  THEN [source EXCEPT !.uuid = Head(dslist).uuid]
                  ELSE source,
                  Tail(dslist))

\* ResolveFrom without the check for a uuid that is still 0.
RECURSIVE ResolveFrom_NoExit(_, _, _)
ResolveFrom_NoExit(reg, dslist, i) ==
    IF i > Len(reg) THEN [reg |-> reg, missing |-> ""]
    ELSE ResolveFrom_NoExit([reg EXCEPT ![i] = ScanUuid(reg[i], dslist)], dslist, i + 1)

\* Lines 71-77: the resolution pass from the i-th record on.  It stops at the first
\* record whose uuid is still 0; missing is that record's name ("" when all resolve).
RECURSIVE ResolveFrom(_, _, _)
ResolveFrom(reg, dslist, i) ==
    IF i > Len(reg) THEN [reg |-> reg, missing |-> ""]
    ELSE LET source == ScanUuid(reg[i], dslist)
             reg2 == [reg EXCEPT ![i] = source]
         IN  IF source.uuid = 0
             THEN [reg |-> reg2, missing |-> source.name]
             ELSE ResolveFrom(reg2, dslist, i + 1)

\* Lines 69-77: fetch the data source list, resolve every record, and leave with
\* status 0 at the first name Kismet does not have.
Resolve ==
    /\ pc = "resolve"
    /\ \E snapshot \in ResolveSnapshots :
          LET r == ResolveFrom(sources_by_name, snapshot, 1)
          IN  /\ datasources' = snapshot
              /\ sources_by_name' = r.reg
              /\ IF r.missing # ""
                 THEN /\ stdout' = <<"Kismet doesn't have a source named " \o r.missing>>
                      /\ pc' = "exit"
                      /\ exit_status' = 0
                 ELSE /\ stdout' = <<>>
                      /\ pc' = "tune"
                      /\ exit_status' = exit_status
    /\ bound' = bound \cup {"datasources"}
    /\ UNCHANGED <<channel, session, state, counts, set_channel_calls, report, branch,
                   exception>>

\* SetChannelCall sending the record's own chan field instead of args.channel.
SetChannelCall_SourceChan(source, chan) ==
    [uuid |-> source.uuid, channel |-> ToString(source.chan)]

\* Line 84: the arguments of one config_datasource_set_channel call.
SetChannelCall(source, chan) == [uuid |-> source.uuid, channel |-> ToString(chan)]

\* Lines 81-85: what the tuning pass prints, given the acknowledgements received.
RECURSIVE TuneLines(_, _, _, _)
TuneLines(reg, chan, acks, i) ==
    IF i > Len(reg) THEN <<>>
    ELSE <<"uuid: " \o ToString(reg[i].uuid) \o ", channel: " \o ToString(chan), acks[i]>>
         \o TuneLines(reg, chan, acks, i + 1)

\* Lines 80-87: state = Syncing, one channel command per record in registry order,
\* and the empty counts dict.
Tune ==
    /\ pc = "tune"
    /\ state' = "Syncing"
    /\ \E acks \in [1..Len(sources_by_name) -> Acks] :
          stdout' = <<"Tuning data sources to channel " \o ToString(channel)>>
                    \o TuneLines(sources_by_name, channel, acks, 1)
    /\ set_channel_calls' = [i \in 1..Len(sources_by_name) |->
                                SetChannelCall(sources_by_name[i], channel)]
    /\ counts' = <<>>
    /\ bound' = bound \cup {"state", "counts"}
    /\ pc' = "loop"
    /\ UNCHANGED <<channel, sources_by_name, session, datasources, report, branch,
                   exit_status, exception>>

\* ----------------------------------------------------------- polling loop
\* SetOffset storing the packet count in the record's count field instead.
SetOffset_CountField(reg, ds) ==
    [reg EXCEPT ![IndexOf(reg, ds.name)].count = ds.num_packets]

\* Line 98: sources_by_name[ds_name].offset = ds['kismet.datasource.num_packets']
\* (ds_name is a key).
SetOffset(reg, ds) ==
    [reg EXCEPT ![IndexOf(reg, ds.name)].offset = ds.num_packets]

\* SyncOffsets skipping the entries whose name the registry lacks.
RECURSIVE SyncOffsets_SkipUnknown(_, _)
SyncOffsets_SkipUnknown(reg, dslist) ==
    IF dslist = <<>> THEN [reg |-> reg, raised |-> FALSE, out |-> <<>>]
    ELSE IF Head(dslist).name \notin Keys(reg)
         THEN SyncOffsets_SkipUnknown(reg, Tail(dslist))
         ELSE LET rest == SyncOffsets_SkipUnknown(SetOffset(reg, Head(dslist)), Tail(dslist))
                  line == "Offset for " \o Head(dslist).name \o " = "
                          \o ToString(Head(dslist).num_packets)
              IN  [rest EXCEPT !.out = <<line>> \o @]

\* SyncOffsets leaving the loop after the first entry.
SyncOffsets_FirstOnly(reg, dslist) ==
    IF dslist = <<>> THEN [reg |-> reg, raised |-> FALSE, out |-> <<>>]
    ELSE IF Head(dslist).name \notin Keys(reg)
         THEN [reg |-> reg, raised |-> TRUE, out |-> <<>>]
         ELSE [reg |-> SetOffset(reg, Head(dslist)), raised |-> FALSE,
               out |-> <<"Offset for " \o Head(dslist).name \o " = "
                         \o ToString(Head(dslist).num_packets)>>]

\* Lines 96-99: the offset loop over the fetched list.  A name that is no key of
\* the registry raises KeyError at once; what was assigned before stays assigned.
RECURSIVE SyncOffsets(_, _)
SyncOffsets(reg, dslist) ==
    IF dslist = <<>> THEN [reg |-> reg, raised |-> FALSE, out |-> <<>>]
    ELSE IF Head(dslist).name \notin Keys(reg)
         THEN [reg |-> reg, raised |-> TRUE, out |-> <<>>]
         ELSE LET reg2 == SetOffset(reg, Head(dslist))
                  rest == SyncOffsets(reg2, Tail(dslist))
                  line == "Offset for " \o Head(dslist).name \o " = "
                          \o ToString(Head(dslist).num_packets)
              IN  [rest EXCEPT !.out = <<line>> \o @]

\* The keys of the counts dict.
CountKeys(cnts) == {cnts[i].ifc : i \in 1..Len(cnts)}

\* counts[ds_name] = value: a new key is appended, an existing key keeps its place.
CountSet(cnts, ds_name, value) ==
    IF ds_name \in CountKeys(cnts)
    THEN [i \in 1..Len(cnts) |-> IF cnts[i].ifc = ds_name
                                 THEN [ifc |-> ds_name, count |-> value]
                                 ELSE cnts[i]]
    ELSE Append(cnts, [ifc |-> ds_name, count |-> value])

\* AdjustedCount forgetting to subtract the offset.
AdjustedCount_NoOffset(reg, ds) == ds.num_packets

\* Line 107: the value stored for one fetched entry (its name is a key of the registry).
AdjustedCount(reg, ds) == ds.num_packets - reg[IndexOf(reg, ds.name)].offset

\* UpdateCounts storing every fetched name, a name the registry lacks with offset 0.
RECURSIVE UpdateCounts_Unchecked(_, _, _)
UpdateCounts_Unchecked(cnts, reg, dslist) ==
    IF dslist = <<>> THEN [counts |-> cnts, raised |-> FALSE]
    ELSE UpdateCounts_Unchecked(
             CountSet(cnts, Head(dslist).name,
                      IF Head(dslist).name \in Keys(reg)
                      THEN AdjustedCount(reg, Head(dslist))
                      ELSE Head(dslist).num_packets),
             reg, Tail(dslist))

\* Lines 105-107: the counter loop over the fetched list.  A name that is no key of
\* the registry raises KeyError at once; what was stored before stays stored.
RECURSIVE UpdateCounts(_, _, _)
UpdateCounts(cnts, reg, dslist) ==
    IF dslist = <<>> THEN [counts |-> cnts, raised |-> FALSE]
    ELSE IF Head(dslist).name \notin Keys(reg)
         THEN [counts |-> cnts, raised |-> TRUE]
         ELSE UpdateCounts(CountSet(cnts, Head(dslist).name, AdjustedCount(reg, Head(dslist))),
                           reg, Tail(dslist))

\* MaxValue taking the smallest value.
MaxValue_Min(cnts) ==
    CHOOSE m \in {cnts[i].count : i \in 1..Len(cnts)} :
        \A i \in 1..Len(cnts) : cnts[i].count >= m

\* max(counts.values()) for a non-empty dict.
MaxValue(cnts) ==
    CHOOSE m \in {cnts[i].count : i \in 1..Len(cnts)} :
        \A i \in 1..Len(cnts) : cnts[i].count <= m

\* MaxCount without the substitution for 0.
MaxCount_NoGuard(cnts) == MaxValue(cnts)

\* Lines 109-110: max_count, with 1 in place of 0.
MaxCount(cnts) == IF MaxValue(cnts) = 0 THEN 1 ELSE MaxValue(cnts)

\* n / d rounded to the nearest integer, halves to the even neighbour (d > 0).
RoundHalfEven(n, d) ==
    LET q == n \div d
        r == n % d
    IN  IF 2 * r < d THEN q
        ELSE IF 2 * r > d THEN q + 1
        ELSE IF q % 2 = 0 THEN q ELSE q + 1

\* "{:.2%}".format(count / max_count) in hundredths of a percent (max_count # 0).
Percent(count, max_count) ==
    IF max_count > 0
    THEN RoundHalfEven(10000 * count, max_count)
    ELSE RoundHalfEven(10000 * (0 - count), 0 - max_count)

\* ReportLine dividing by the line's own count (1 for a zero count).
ReportLine_OwnCount(ifc, count, max_count) ==
    [ifc |-> ifc, count |-> count, num |-> count, den |-> IF count = 0 THEN 1 ELSE count,
     pct |-> IF count = 0 THEN 0 ELSE 10000]

\* Line 113: one printed line.  The quotient count / max_count is kept as the pair
\* num / den, and pct is how the format shows it.
ReportLine(ifc, count, max_count) ==
    [ifc |-> ifc, count |-> count, num |-> count, den |-> max_count,
     pct |-> Percent(count, max_count)]

\* ReportLines walking the registry instead of the counts dict.
ReportLines_RegistryOrder(cnts, max_count) ==
    LET names == SelectSeq([i \in 1..Len(sources_by_name) |-> sources_by_name[i].name],
                           LAMBDA n : n \in CountKeys(cnts))
        at(n) == CHOOSE i \in 1..Len(cnts) : cnts[i].ifc = n
    IN  [i \in 1..Len(names) |-> ReportLine(names[i], cnts[at(names[i])].count, max_count)]

\* Lines 112-113: one line per item of counts, in the dict's order.
ReportLines(cnts, max_count) ==
    [i \in 1..Len(cnts) |-> ReportLine(cnts[i].ifc, cnts[i].count, max_count)]

\* SyncingBranch assigning a state that is neither Syncing nor Collecting.
SyncingBranch_OtherState(snapshot) ==
    LET r == SyncOffsets(sources_by_name, snapshot)
    IN  /\ sources_by_name' = r.reg
        /\ stdout' = r.out
        /\ report' = <<>>
        /\ branch' = "Syncing"
        /\ counts' = counts
        /\ IF r.raised
           THEN /\ pc' = "raised"
                /\ exception' = "KeyError"
                /\ state' = state
           ELSE /\ pc' = "loop"
                /\ exception' = exception
                /\ state' = "Synced"
        /\ exit_status' = exit_status

\* Lines 92-101: the Syncing branch on the fetched list.
SyncingBranch(snapshot) ==
    LET r == SyncOffsets(sources_by_name, snapshot)
    IN  /\ sources_by_name' = r.reg
        /\ stdout' = r.out
        /\ report' = <<>>
        /\ branch' = "Syncing"
        /\ counts' = counts
        /\ IF r.raised
           THEN /\ pc' = "raised"
                /\ exception' = "KeyError"
                /\ state' = state
           ELSE /\ pc' = "loop"
                /\ exception' = exception
                /\ state' = "Collecting"
        /\ exit_status' = exit_status

\* Lines 103-113: the Collecting branch on the fetched list.  max() of an empty
\* dict raises ValueError, and a zero max_count would raise ZeroDivisionError at the
\* first line, before anything is printed.
CollectingBranch(snapshot) ==
    LET r == UpdateCounts(counts, sources_by_name, snapshot)
    IN  /\ counts' = r.counts
        /\ stdout' = <<>>
        /\ branch' = "Collecting"
        /\ UNCHANGED <<sources_by_name, state, exit_status>>
        /\ IF r.raised
           THEN /\ pc' = "raised"
                /\ exception' = "KeyError"
                /\ report' = <<>>
           ELSE IF r.counts = <<>>
           THEN /\ pc' = "raised"
                /\ exception' = "ValueError"
                /\ report' = <<>>
           ELSE IF MaxCount(r.counts) = 0
           THEN /\ pc' = "raised"
                /\ exception' = "ZeroDivisionError"
                /\ report' = <<>>
           ELSE /\ pc' = "loop"
                /\ exception' = exception
                /\ report' = ReportLines(r.counts, MaxCount(r.counts))

\* Lines 115-117: neither state.
StateErrorBranch ==
    /\ stdout' = <<"State error">>
    /\ report' = <<>>
    /\ branch' = "error"
    /\ pc' = "exit"
    /\ exit_status' = 1
    /\ UNCHANGED <<sources_by_name, state, counts, exception>>

\* Lines 89-119: one iteration of while True: fetch the list, take the branch the
\* state selects, sleep one second.
LoopIteration ==
    /\ pc = "loop"
    /\ \E snapshot \in PollSnapshots :
          /\ datasources' = snapshot
          /\ IF state = "Syncing" THEN SyncingBranch(snapshot)
             ELSE IF state = "Collecting" THEN CollectingBranch(snapshot)
             ELSE StateErrorBranch
    /\ UNCHANGED <<bound, channel, session, set_channel_calls>>

\* ---------------------------------------------------------- specification
\* The interpreter at the first statement of the main block: nothing is bound.
Init ==
    /\ pc = "parse"
    /\ bound = {}
    /\ channel = 0
    /\ sources_by_name = <<>>
    /\ session = "unchecked"
    /\ datasources = <<>>
    /\ state = ""
    /\ counts = <<>>
    /\ set_channel_calls = <<>>
    /\ stdout = <<>>
    /\ report = <<>>
    /\ branch = ""
    /\ exit_status = -1
    /\ exception = ""

Next == ParseArgs \/ Login \/ Resolve \/ Tune \/ LoopIteration

Spec == Init /\ [][Next]_vars

\* ------------------------------------------------------------ vocabulary
\* The registered names in registry order, and the names of a fetched list.
RegistryOrder == [i \in 1..Len(sources_by_name) |-> sources_by_name[i].name]
NamesOf(dslist) == {dslist[i].name : i \in 1..Len(dslist)}

\* The packet count a fetched list gives for name n: that of its last entry named n.
PacketsIn(dslist, n) ==
    dslist[CHOOSE i \in 1..Len(dslist) :
              /\ dslist[i].name = n
              /\ \A j \in (i + 1)..Len(dslist) : dslist[j].name # n].num_packets

\* The offset of the registered source n.
OffsetOf(n) == sources_by_name[IndexOf(sources_by_name, n)].offset
Offsets == [i \in 1..Len(sources_by_name) |-> sources_by_name[i].offset]

\* The last loop iteration ran the named branch to its end (it did not raise).
Completed(b) == branch = b /\ pc = "loop"

\* The largest count among the printed lines.
MaxReported == CHOOSE m \in {report[i].count : i \in 1..Len(report)} :
                  \A i \in 1..Len(report) : report[i].count <= m

\* The printed quotient num / den lies in [0, 1], and equals 1, for den # 0.
InUnitInterval(line) ==
    IF line.den > 0 THEN 0 <= line.num /\ line.num <= line.den
    ELSE line.den <= line.num /\ line.num <= 0
IsOne(line) == line.num = line.den /\ line.pct = 10000
IsZero(line) == line.num = 0 /\ line.pct = 0

C2_CountFromThisSnapshot ==
    Completed("Collecting") =>
        \A k \in 1..Len(report) :
            \E i \in 1..Len(datasources) :
                /\ datasources[i].name = report[k].ifc
                /\ report[k].count = datasources[i].num_packets - OffsetOf(report[k].ifc)

\* C2 amended: in every Collecting iteration each printed source that is in the list
\* fetched in that iteration has count = its packet count in that list minus its
\* offset; a printed source that is not in the list keeps a count stored earlier.
C2_CountOfPresentSource ==
    Completed("Collecting") =>
        \A k \in 1..Len(report) :
            report[k].ifc \in NamesOf(datasources) =>
                report[k].count
                    = PacketsIn(datasources, report[k].ifc) - OffsetOf(report[k].ifc)

\* C2 witness: a source with a non-zero offset is fetched with exactly that packet
\* count and printed with count 0.
C2_Witness ==
    /\ Completed("Collecting")
    /\ \E k \in 1..Len(report) :
          /\ report[k].ifc \in NamesOf(datasources)
          /\ OffsetOf(report[k].ifc) > 0
          /\ report[k].count = 0

\* C3 as stated: every printed fraction lies in [0, 1].
C3_FractionInUnitInterval ==
    \A k \in 1..Len(report) : InUnitInterval(report[k])

\* C3 amended: in an iteration where no printed count is negative (no source's
\* packet count fell below its offset), every printed fraction lies in [0, 1].
C3_FractionInUnitIntervalNonNegative ==
    (\A k \in 1..Len(report) : report[k].count >= 0) =>
        \A k \in 1..Len(report) : InUnitInterval(report[k])

\* C3 witness: two sources printed with different positive counts.
C3_Witness ==
    /\ Completed("Collecting")
    /\ Len(report) = 2
    /\ report[1].count > 0
    /\ report[2].count > report[1].count

\* C4 as stated: the source with the largest printed count has fraction exactly 1
\* (100.00%).
C4_MaxIsOne ==
    \A k \in 1..Len(report) :
        report[k].count = MaxReported => IsOne(report[k])

\* C4 amended: when the largest printed count is not 0, the source that has it is
\* printed with fraction exactly 1 (100.00%) and every source with its count over
\* that largest count.
C4_MaxIsOneUnlessZero ==
    (report # <<>> /\ MaxReported # 0) =>
        \A k \in 1..Len(report) :
            /\ report[k].num = report[k].count
            /\ report[k].den = MaxReported
            /\ report[k].pct = Percent(report[k].count, MaxReported)
            /\ report[k].count = MaxReported => IsOne(report[k])

\* C4 witness: two lines, the larger count at 100.00% and the smaller at 50.00%.
C4_Witness ==
    /\ Len(report) = 2
    /\ report[1].count = 1 /\ report[1].pct = 5000
    /\ report[2].count = 2 /\ report[2].pct = 10000

\* C5: when every printed count is 0 the divisor is 1 and every fraction is 0
\* (0.00%); no iteration divides by zero.
C5_AllZero ==
    /\ exception # "ZeroDivisionError"
    /\ \A k \in 1..Len(report) : report[k].den # 0
    /\ (\A k \in 1..Len(report) : report[k].count = 0) =>
          \A k \in 1..Len(report) : report[k].den = 1 /\ IsZero(report[k])

\* C5 witness: two sources printed, both with count 0 after packets were counted
\* into their offsets.
C5_Witness ==
    /\ Len(report) = 2
    /\ \A k \in 1..2 : report[k].count = 0 /\ OffsetOf(report[k].ifc) > 0

\* The names of the printed lines and the keys of counts, in order.
ReportOrder == [k \in 1..Len(report) |-> report[k].ifc]
CountOrder(cnts) == [i \in 1..Len(cnts) |-> cnts[i].ifc]

\* The names of a fetched list that are not in seen, each once, in the order of
\* their first entry.
RECURSIVE FirstSeen(_, _)
FirstSeen(dslist, seen) ==
    IF dslist = <<>> THEN <<>>
    ELSE IF Head(dslist).name \in seen THEN FirstSeen(Tail(dslist), seen)
    ELSE <<Head(dslist).name>> \o FirstSeen(Tail(dslist), seen \cup {Head(dslist).name})

\* The message of line 76 for name n.
NoSuchSource(n) == "Kismet doesn't have a source named " \o n

\* C6: the loop is entered only with every record resolved; when a registered name
\* is not in the list fetched for resolution the program names a missing one and
\* leaves with status 0, having tuned nothing and run no iteration.
C6_UnresolvedNameExits ==
    /\ (pc \in {"tune", "loop", "raised"} \/ "counts" \in bound) =>
          \A i \in 1..Len(sources_by_name) : sources_by_name[i].uuid # 0
    /\ pc = "tune" => Keys(sources_by_name) \subseteq NamesOf(datasources)
    /\ (pc = "exit" /\ session = "valid") =>
          /\ exit_status = 0
          /\ \E n \in Keys(sources_by_name) \ NamesOf(datasources) :
                stdout = <<NoSuchSource(n)>>
          /\ bound = {"datasources"}
          /\ state = "" /\ branch = "" /\ counts = <<>> /\ report = <<>>
          /\ set_channel_calls = <<>>

\* C6 witness: of two registered names the first resolved and the second did not,
\* and the program left with status 0.
C6_Witness ==
    /\ pc = "exit" /\ exit_status = 0
    /\ Len(sources_by_name) = 2
    /\ sources_by_name[1].uuid # 0
    /\ sources_by_name[2].uuid = 0
    /\ stdout = <<NoSuchSource(sources_by_name[2].name)>>

\* C7: after an invalid session the program has printed "Invalid login" and left
\* with status 1, having fetched no list, sent no channel command and run no
\* iteration.
C7_InvalidLoginExits ==
    session = "invalid" =>
        /\ pc = "exit" /\ exit_status = 1
        /\ stdout = <<"Invalid login">>
        /\ bound = {} /\ datasources = <<>>
        /\ set_channel_calls = <<>>
        /\ state = "" /\ branch = "" /\ counts = <<>> /\ report = <<>>

\* C7 witness: a two-source run whose session check failed.
C7_Witness ==
    /\ session = "invalid" /\ pc = "exit"
    /\ Len(sources_by_name) = 2

\* C8 as stated: the printed lines follow the registry's order.
C8_ReportInRegistryOrder ==
    \A i, j \in 1..Len(report) :
        i < j => IndexOf(sources_by_name, report[i].ifc)
                    < IndexOf(sources_by_name, report[j].ifc)

\* C8 amended: the printed lines follow the order of the counts dict, which is the
\* order in which the names first appeared in the lists fetched by the Collecting
\* iterations: each iteration keeps the keys it has and appends the new names of its
\* list in the list's order.
C8_ReportInFirstSeenOrder ==
    [][ (pc' = "loop" /\ branch' = "Collecting") =>
           /\ ReportOrder' = CountOrder(counts')
           /\ CountOrder(counts')
                 = CountOrder(counts) \o FirstSeen(datasources', CountKeys(counts)) ]_vars

\* C8 witness: two lines printed in the opposite of the registry's order.
C8_Witness ==
    /\ Completed("Collecting")
    /\ Len(report) = 2 /\ Len(sources_by_name) = 2
    /\ report[1].ifc = sources_by_name[2].name
    /\ report[2].ifc = sources_by_name[1].name

\* C9 as stated: a Collecting iteration prints exactly one line for each registered
\* source and none for another name.
C9_OneLinePerRegistered ==
    Completed("Collecting") =>
        /\ Len(report) = Len(sources_by_name)
        /\ {report[k].ifc : k \in 1..Len(report)} = Keys(sources_by_name)

\* C9 amended: a Collecting iteration that does not raise prints exactly one line
\* for each key of counts, that is for each registered source in its list or in the
\* list of an earlier Collecting iteration, and none for another name; one that
\* raises prints no line.
C9_OneLinePerCounted ==
    branch = "Collecting" =>
        IF pc = "loop"
        THEN /\ \A i, j \in 1..Len(report) : report[i].ifc = report[j].ifc => i = j
             /\ {report[k].ifc : k \in 1..Len(report)} = CountKeys(counts)
             /\ NamesOf(datasources) \subseteq {report[k].ifc : k \in 1..Len(report)}
             /\ {report[k].ifc : k \in 1..Len(report)} \subseteq Keys(sources_by_name)
        ELSE report = <<>>

\* C9 witness: two sources are registered, both were resolved, and an iteration
\* whose list holds one of them prints one line.
C9_Witness ==
    /\ Completed("Collecting")
    /\ Len(sources_by_name) = 2
    /\ Len(datasources) = 1
    /\ Len(report) = 1

\* C10 as stated: once the loop has been entered the program is always about to
\* run another iteration: it has neither left nor raised.
C10_LoopNeverEnds ==
    "counts" \in bound => pc = "loop"

\* The warning of line 58.
Uninteresting == "A shootout with only one data source is uninteresting, but whatever..."

\* C11: with fewer than two registered names the warning is printed and the program
\* goes on to log in; it leaves only as any run does, at an invalid session with
\* status 1 or at an unresolved name with status 0, and a one-source run that gets
\* past both has tuned its source and polls.
C11_WarningOnly ==
    /\ pc = "login" =>
          /\ exit_status = -1
          /\ stdout = IF Len(sources_by_name) < 2 THEN <<Uninteresting>> ELSE <<>>
    /\ session = "unchecked" => pc \in {"parse", "login"}
    /\ pc = "exit" =>
          \/ session = "invalid" /\ exit_status = 1
          \/ /\ session = "valid" /\ exit_status = 0
             /\ ~(Keys(sources_by_name) \subseteq NamesOf(datasources))
    /\ (Len(sources_by_name) = 1 /\ pc \in {"loop", "raised"}) =>
          /\ session = "valid"
          /\ sources_by_name[1].uuid # 0
          /\ Len(set_channel_calls) = 1

\* C11 witness: a run with one registered source has been warned, tuned and synced
\* and prints its line in a Collecting iteration.
C11_Witness ==
    /\ Len(sources_by_name) = 1
    /\ Completed("Collecting")
    /\ Len(set_channel_calls) = 1
    /\ Len(report) = 1

\* C12: the first iteration, and only the first, runs in state Syncing and every
\* later one in state Collecting; a Syncing iteration that ends leaves the state
\* Collecting, a Collecting one leaves it as it is, and no iteration takes the
\* "State error" branch or leaves the program.
C12_SyncingOnceThenCollecting ==
    [][ pc = "loop" =>
           /\ state \in {"Syncing", "Collecting"}
           /\ state = "Syncing" <=> branch = ""
           /\ branch' = state
           /\ pc' = "loop" => state' = "Collecting"
           /\ state = "Collecting" => state' = "Collecting"
           /\ pc' # "exit" /\ exit_status' = -1
           /\ stdout' # <<"State error">> ]_vars

\* C12 witness: a Collecting iteration has followed a Collecting iteration.
C12_Witness ==
    /\ Completed("Collecting")
    /\ state = "Collecting"
    /\ Len(counts) = 2
    /\ \E i \in 1..2 : counts[i].ifc \notin NamesOf(datasources)

\* C13 as stated: the iteration after the Syncing one prints, for each source, the
\* packet count of its list minus the packet count of the Syncing list.
C13_FirstReportIsDifference ==
    [][ (pc = "loop" /\ branch = "Syncing" /\ pc' = "loop") =>
           \A k \in 1..Len(report') :
               /\ report'[k].ifc \in NamesOf(datasources')
               /\ report'[k].ifc \in NamesOf(datasources)
               /\ report'[k].count = PacketsIn(datasources', report'[k].ifc)
                                        - PacketsIn(datasources, report'[k].ifc) ]_vars

\* C13 amended: nothing is printed per source before or by the Syncing iteration;
\* the next iteration, if it does not raise, prints the first lines, one for each
\* source of its list, with count = the packet count of its list minus the packet
\* count of the Syncing list, or minus 0 for a source the Syncing list lacked; if
\* it raises it prints none.
C13_FirstReportAfterSync ==
    [][ pc = "loop" =>
           /\ branch \in {"", "Syncing"} => report = <<>>
           /\ state = "Syncing" => report' = <<>>
           /\ (branch = "Syncing" /\ pc' # "loop") => report' = <<>>
           /\ (branch = "Syncing" /\ pc' = "loop") =>
                 /\ {report'[k].ifc : k \in 1..Len(report')} = NamesOf(datasources')
                 /\ report' # <<>>
                 /\ \A k \in 1..Len(report') :
                       report'[k].count
                          = PacketsIn(datasources', report'[k].ifc)
                              - (IF report'[k].ifc \in NamesOf(datasources)
                                 THEN PacketsIn(datasources, report'[k].ifc)
                                 ELSE 0) ]_vars

\* C13 witness: wlan0 went from 0 to 2 packets and wlan1 from 1 to 2 since the
\* Syncing list; the lines are wlan0 2 (100.00%) and wlan1 1 (50.00%).
C13_Witness ==
    /\ Completed("Collecting")
    /\ RegistryOrder = <<"wlan0", "wlan1">>
    /\ Offsets = <<0, 1>>
    /\ datasources = <<DataSource("wlan0", UuidOf("wlan0"), 2),
                       DataSource("wlan1", UuidOf("wlan1"), 2)>>
    /\ report = <<[ifc |-> "wlan0", count |-> 2, num |-> 2, den |-> 2, pct |-> 10000],
                  [ifc |-> "wlan1", count |-> 1, num |-> 1, den |-> 2, pct |-> 5000]>>

\* C14: channel commands exist only after a valid session and a full resolution;
\* from the end of the tuning pass on, before the first fetch of the loop and ever
\* after, they are exactly one per registered source in registry order, each with
\* the source's resolved identifier and the channel of the command line; a run that
\* has left has sent none.
C14_OneChannelCommandPerSource ==
    /\ pc \in {"parse", "login", "resolve", "tune", "exit"} => set_channel_calls = <<>>
    /\ set_channel_calls # <<>> =>
          /\ session = "valid"
          /\ \A i \in 1..Len(sources_by_name) : sources_by_name[i].uuid # 0
    /\ pc \in {"loop", "raised"} =>
          /\ Len(set_channel_calls) = Len(sources_by_name)
          /\ \A i \in 1..Len(sources_by_name) :
                /\ set_channel_calls[i].uuid = UuidOf(sources_by_name[i].name)
                /\ set_channel_calls[i].uuid = sources_by_name[i].uuid
                /\ set_channel_calls[i].channel = ToString(channel)
          /\ channel \in Channels

\* C14 witness: two sources tuned to channel 6, the loop not yet started.
C14_Witness ==
    /\ pc = "loop" /\ branch = ""
    /\ channel = 6
    /\ set_channel_calls = <<[uuid |-> 22, channel |-> "6"], [uuid |-> 11, channel |-> "6"]>>

\* C15 as stated: when a source counted by an earlier Collecting iteration is not in
\* the list of a Collecting iteration, the program goes on to the next iteration and
\* this one prints the source with the count it had.
C15_AbsentSourceKeepsRunning ==
    [][ (pc = "loop" /\ state = "Collecting") =>
           \A i \in 1..Len(counts) :
               counts[i].ifc \notin NamesOf(datasources') =>
                   /\ pc' = "loop"
                   /\ counts'[i] = counts[i]
                   /\ \E k \in 1..Len(report') :
                         /\ report'[k].ifc = counts[i].ifc
                         /\ report'[k].count = counts[i].count ]_vars

\* C15, the part that holds: the stored count of such a source is never touched,
\* and when the list names registered sources only, the program goes on and prints
\* the source once with that count, under a divisor that is no smaller.
C15_AbsentSourceKeepsCount ==
    [][ (pc = "loop" /\ state = "Collecting") =>
           \A i \in 1..Len(counts) :
               counts[i].ifc \notin NamesOf(datasources') =>
                   /\ counts'[i] = counts[i]
                   /\ NamesOf(datasources') \subseteq Keys(sources_by_name) =>
                         /\ pc' = "loop"
                         /\ report'[i].ifc = counts[i].ifc
                         /\ report'[i].count = counts[i].count
                         /\ report'[i].den >= counts[i].count ]_vars

\* C16: an iteration whose list names a source the registry lacks raises KeyError
\* and prints no per-source line, in the Syncing and in the Collecting state alike;
\* KeyError has no other cause, and no such name gets into counts.
C16_UnregisteredNameRaises ==
    /\ (branch # "" /\ ~(NamesOf(datasources) \subseteq Keys(sources_by_name))) =>
          /\ pc = "raised" /\ exception = "KeyError"
          /\ report = <<>>
    /\ exception = "KeyError" =>
          /\ pc = "raised"
          /\ ~(NamesOf(datasources) \subseteq Keys(sources_by_name))
    /\ CountKeys(counts) \subseteq Keys(sources_by_name)

\* C16 witness: a Collecting iteration stored the count of a registered source and
\* then raised at the unregistered source behind it in the list.
C16_Witness ==
    /\ pc = "raised" /\ branch = "Collecting"
    /\ Len(datasources) = 2
    /\ datasources[1].name \in Keys(sources_by_name)
    /\ datasources[2].name \notin Keys(sources_by_name)
    /\ datasources[1].name \in CountKeys(counts)

====
